---- MODULE Spec2Model ----
(***************************************************************************)
(* Model of main.cpp: two texts are read from files and printed three      *)
(* times: by one thread, by two unsynchronised threads (raceTest) and by   *)
(* two threads ordered with a mutex and a condition variable (monitorTest).*)
(* Every statement that touches shared state (a flag, a mutex, a condition *)
(* variable, stdout) is one step of its thread; sleep_for is a step with   *)
(* no upper bound on the time at which it is taken.  The workers assign    *)
(* the flags without the mutex the waiters read them under: the assignment *)
(* is a step of its own that falls anywhere between the waiter's steps, so *)
(* a waiter's read yields the value before or after it.                    *)
(***************************************************************************)
EXTENDS Integers, Sequences, FiniteSets, TLC

\* Longest text displayTextSlowly is given when it is checked on its own.
MaxTextLen == 2

\* Longest file content the model draws for each of the two input files.
MaxFileLen == 1

\* Characters a file may hold: a letter and the line terminator.
Chars == {"a", "\n"}

SeqsUpTo(S, n) == UNION {[1..k -> S] : k \in 0..n}

Contents == SeqsUpTo(Chars, MaxFileLen)

Workers == {"raceA", "raceB", "monA", "monB"}
Threads == {"main"} \cup Workers

VARIABLES
  fs,                 \* the two files: whether each can be opened, and its content
  rock_text,          \* std::string rock_text
  hamlet_text,        \* std::string hamlet_text
  pc,                 \* each thread's position
  idx,                \* each worker's position in the text it displays
  raceTestsFinished,  \* bool raceTestsFinished
  raceMutex,          \* owner of raceMutex, or "none"
  raceTestVar,        \* threads blocked on raceTestVar
  finishedFirstText,  \* bool finishedFirstText
  printMutex,         \* owner of printMutex, or "none"
  printCondition,     \* threads blocked on printCondition
  out,                \* what each thread has written to stdout, in order
  recent,             \* the latest three characters displayed by raceTest's workers,
                      \* in the order they reached stdout
  err,                \* what has been written to stderr, in order
  status              \* "running", or the way the process ended

vars == <<fs, rock_text, hamlet_text, pc, idx, raceTestsFinished, raceMutex,
          raceTestVar, finishedFirstText, printMutex, printCondition, out, recent,
          err, status>>

files   == <<fs>>
texts   == <<rock_text, hamlet_text>>
raceMon == <<raceTestsFinished, raceMutex, raceTestVar>>
printMon == <<finishedFirstText, printMutex, printCondition>>

----------------------------------------------------------------------------
(* readFile *)

\* The position of the first '\n' of content at or after pos, Len + 1 if none.
RECURSIVE NextNewline(_, _)
NextNewline(content, pos) ==
  IF pos > Len(content) THEN Len(content) + 1
  ELSE IF content[pos] = "\n" THEN pos
  ELSE NextNewline(content, pos + 1)

\* std::getline(inputStream, line) on a stream s = [pos, eofbit, failbit]:
\* a stream that is not good fails its sentry and leaves line as it was;
\* otherwise line is erased and filled up to the next '\n' (consumed, not
\* stored) or to the end of the file (eofbit), failbit when nothing was read.
getline(content, s, line) ==
  IF s.eofbit \/ s.failbit
    THEN [s |-> [s EXCEPT !.failbit = TRUE], line |-> line]
    ELSE LET nl == NextNewline(content, s.pos) IN
      IF nl <= Len(content)
        THEN [s |-> [s EXCEPT !.pos = nl + 1],
              line |-> SubSeq(content, s.pos, nl - 1)]
        ELSE [s |-> [pos |-> Len(content) + 1, eofbit |-> TRUE,
                     failbit |-> s.pos > Len(content)],
              line |-> SubSeq(content, s.pos, Len(content))]

\* while (inputStream) { getline(inputStream, line); data += line + '\n'; }
RECURSIVE readLoop(_, _, _, _)
readLoop(content, s, line, data) ==
  IF s.failbit THEN data
  ELSE LET r == getline(content, s, line) IN
    readLoop(content, r.s, r.line, data \o r.line \o <<"\n">>)

\* Variant of StreamOk: the stream is never tested.
StreamAlwaysOk(f) == TRUE

\* if (inputStream): the file could be opened.
StreamOk(f) == f.openable

\* The string readFile returns for a file that could be opened.
readFile(f) ==
  readLoop(f.content, [pos |-> 1, eofbit |-> FALSE, failbit |-> FALSE], <<>>, <<>>)

----------------------------------------------------------------------------
(* stdout, stderr *)

Ev(t, kind, ch) == [who |-> t, kind |-> kind, ch |-> ch]

LastN(s, n) == IF Len(s) <= n THEN s ELSE SubSeq(s, Len(s) - n + 1, Len(s))

\* A character displayed by one of raceTest's two workers.
RaceText(e) == e.kind = "text" /\ e.who \in {"raceA", "raceB"}

\* Thread t writes the events evs to stdout, in one call.
WriteAll(t, evs) ==
  /\ out' = [out EXCEPT ![t] = @ \o evs]
  /\ recent' = LastN(recent \o SelectSeq(evs, RaceText), 3)

Write(t, kind, ch) == WriteAll(t, <<Ev(t, kind, ch)>>)

stdout == <<out, recent>>

RECURSIVE TextEvents(_, _)
TextEvents(t, text) ==
  IF text = <<>> THEN <<>>
  ELSE <<Ev(t, "text", Head(text))>> \o TextEvents(t, Tail(text))

Alive == status = "running"

Goto(t, l) == pc' = [pc EXCEPT ![t] = l]

----------------------------------------------------------------------------
(* main *)

FlagInit == FALSE

Init ==
  /\ fs \in [{"rock", "hamlet"} -> [openable : BOOLEAN, content : Contents]]
  /\ \A n \in DOMAIN fs : ~fs[n].openable => fs[n].content = <<>>
  /\ rock_text = <<>>
  /\ hamlet_text = <<>>
  /\ pc = [t \in Threads |-> IF t = "main" THEN "load_rock" ELSE "idle"]
  /\ idx = [t \in Workers |-> 0]
  /\ raceTestsFinished = FlagInit
  /\ raceMutex = "none"
  /\ raceTestVar = {}
  /\ finishedFirstText = FlagInit
  /\ printMutex = "none"
  /\ printCondition = {}
  /\ out = [t \in Threads |-> <<>>]
  /\ recent = <<>>
  /\ err = <<>>
  /\ status = "running"

\* readFile's else branch: the message on cerr and exit(1).
ReadFails(t) ==
  /\ err' = Append(err, "Fatal Error: Could not open input file\n")
  /\ status' = "exit1"
  /\ UNCHANGED <<files, texts, pc, idx, raceMon, printMon, stdout>>

\* rock_text = readFile("i_wanna_rock.txt");
LoadRock ==
  /\ Alive /\ pc["main"] = "load_rock"
  /\ IF StreamOk(fs["rock"])
       THEN /\ rock_text' = readFile(fs["rock"])
            /\ Goto("main", "load_hamlet")
            /\ UNCHANGED <<files, hamlet_text, idx, raceMon, printMon, stdout, err, status>>
       ELSE ReadFails("main")

\* hamlet_text = readFile("hamlet.txt");
LoadHamlet ==
  /\ Alive /\ pc["main"] = "load_hamlet"
  /\ IF StreamOk(fs["hamlet"])
       THEN /\ hamlet_text' = readFile(fs["hamlet"])
            /\ Goto("main", "single")
            /\ UNCHANGED <<files, rock_text, idx, raceMon, printMon, stdout, err, status>>
       ELSE ReadFails("main")

singleThreadTest ==
  /\ Alive /\ pc["main"] = "single"
  /\ WriteAll("main", <<Ev("main", "banner", "single")>>
               \o <<Ev("main", "banner", "rock")>>
               \o TextEvents("main", rock_text) \o <<Ev("main", "nl", "\n")>>
               \o <<Ev("main", "banner", "hamlet")>>
               \o TextEvents("main", hamlet_text)
               \o <<Ev("main", "nl", "\n"), Ev("main", "nl", "\n")>>)
  /\ Goto("main", "r_banner")
  /\ UNCHANGED <<files, texts, idx, raceMon, printMon, err, status>>

\* exit(0)
Exit0 ==
  /\ Alive /\ pc["main"] = "exit"
  /\ status' = "exit0"
  /\ UNCHANGED <<files, texts, pc, idx, raceMon, printMon, stdout, err>>

----------------------------------------------------------------------------
(* displayTextSlowly, run by worker t on text, continuing at next *)

\* Entering the range-for after the banner.
DisplayEnter(t, text, next) ==
  /\ idx' = [idx EXCEPT ![t] = 1]
  /\ Goto(t, IF Len(text) = 0 THEN next ELSE "put")

\* std::putchar(c)
DisplayPut(t, text) ==
  /\ Alive /\ pc[t] = "put"
  /\ Write(t, "text", text[idx[t]])
  /\ Goto(t, "sleep")
  /\ UNCHANGED <<files, texts, idx, raceMon, printMon, err, status>>

\* Variant of DisplaySleep: the loop ends one character early.
DisplaySleepEarly(t, text, next) ==
  /\ Alive /\ pc[t] = "sleep"
  /\ idx' = [idx EXCEPT ![t] = idx[t] + 1]
  /\ Goto(t, IF idx[t] + 1 < Len(text) THEN "put" ELSE next)
  /\ UNCHANGED <<files, texts, raceMon, printMon, stdout, err, status>>

\* std::this_thread::sleep_for(delay), and the step to the next character
DisplaySleep(t, text, next) ==
  /\ Alive /\ pc[t] = "sleep"
  /\ idx' = [idx EXCEPT ![t] = idx[t] + 1]
  /\ Goto(t, IF idx[t] < Len(text) THEN "put" ELSE next)
  /\ UNCHANGED <<files, texts, raceMon, printMon, stdout, err, status>>

\* std::cout << banner, then the call of displayTextSlowly
Banner(t, name, text, next) ==
  /\ Alive /\ pc[t] = "banner"
  /\ Write(t, "banner", name)
  /\ DisplayEnter(t, text, next)
  /\ UNCHANGED <<files, texts, raceMon, printMon, err, status>>

----------------------------------------------------------------------------
(* raceTest *)

RaceBanner ==
  /\ Alive /\ pc["main"] = "r_banner"
  /\ Write("main", "banner", "race")
  /\ Goto("main", "r_spawnA")
  /\ UNCHANGED <<files, texts, idx, raceMon, printMon, err, status>>

\* std::thread(...).detach(): the worker starts at its first statement.
Spawn(from, w, first, next) ==
  /\ Alive /\ pc["main"] = from
  /\ pc' = [pc EXCEPT !["main"] = next, ![w] = first]
  /\ UNCHANGED <<files, texts, idx, raceMon, printMon, stdout, err, status>>

RaceSpawnA == Spawn("r_spawnA", "raceA", "banner", "r_spawnB")
RaceSpawnB == Spawn("r_spawnB", "raceB", "banner", "r_lock")

RaceABanner == Banner("raceA", "rock", rock_text, "done")
RaceAPut == DisplayPut("raceA", rock_text)
RaceASleep == DisplaySleep("raceA", rock_text, "done")

RaceBBanner == Banner("raceB", "hamlet", hamlet_text, "set")
\* Variant of RaceBPut: the second worker displays only once the first is done.
RaceBPutAfterA == pc["raceA"] = "done" /\ DisplayPut("raceB", hamlet_text)

RaceBPut == DisplayPut("raceB", hamlet_text)
RaceBSleep == DisplaySleep("raceB", hamlet_text, "set")

\* raceTestsFinished = true;
RaceBSet ==
  /\ Alive /\ pc["raceB"] = "set"
  /\ raceTestsFinished' = TRUE
  /\ Goto("raceB", "notify")
  /\ UNCHANGED <<files, texts, idx, raceMutex, raceTestVar, printMon, stdout, err, status>>

\* raceTestVar.notify_all(): every thread blocked in wait is released.
RaceBNotify ==
  /\ Alive /\ pc["raceB"] = "notify"
  /\ raceTestVar' = {}
  /\ pc' = [t \in Threads |->
              IF t = "raceB" THEN "done"
              ELSE IF t \in raceTestVar THEN "r_reacq" ELSE pc[t]]
  /\ UNCHANGED <<files, texts, idx, raceTestsFinished, raceMutex, printMon, stdout, err, status>>

\* std::unique_lock<std::mutex> lock(raceMutex);
RaceLock ==
  /\ Alive /\ pc["main"] = "r_lock"
  /\ raceMutex = "none"
  /\ raceMutex' = "main"
  /\ Goto("main", "r_while")
  /\ UNCHANGED <<files, texts, idx, raceTestsFinished, raceTestVar, printMon, stdout, err, status>>

\* Variant of RaceWhile: raceTest goes on without testing the flag.
RaceWhileSkip ==
  /\ Alive /\ pc["main"] = "r_while"
  /\ Goto("main", "r_sleep")
  /\ UNCHANGED <<files, texts, idx, raceMon, printMon, stdout, err, status>>

\* while (!raceTestsFinished)
RaceWhile ==
  /\ Alive /\ pc["main"] = "r_while"
  /\ Goto("main", IF raceTestsFinished THEN "r_sleep" ELSE "r_pred")
  /\ UNCHANGED <<files, texts, idx, raceMon, printMon, stdout, err, status>>

\* wait(lock, pred) tests pred before it blocks and after every wake-up.
RacePred ==
  /\ Alive /\ pc["main"] = "r_pred"
  /\ Goto("main", IF raceTestsFinished THEN "r_while" ELSE "r_wait")
  /\ UNCHANGED <<files, texts, idx, raceMon, printMon, stdout, err, status>>

\* wait(lock): the mutex is released and the thread blocks, atomically.
RaceWait ==
  /\ Alive /\ pc["main"] = "r_wait"
  /\ raceMutex' = "none"
  /\ raceTestVar' = raceTestVar \cup {"main"}
  /\ Goto("main", "r_blocked")
  /\ UNCHANGED <<files, texts, idx, raceTestsFinished, printMon, stdout, err, status>>

\* Variant of RaceResume: a single wait(lock) with no predicate and no loop.
RaceResumeNaive == "r_sleep"

\* The position wait(lock, pred) resumes at once it holds the mutex again.
RaceResume == "r_pred"

\* wait(lock) takes the mutex again before it returns.
RaceReacquire ==
  /\ Alive /\ pc["main"] = "r_reacq"
  /\ raceMutex = "none"
  /\ raceMutex' = "main"
  /\ Goto("main", RaceResume)
  /\ UNCHANGED <<files, texts, idx, raceTestsFinished, raceTestVar, printMon, stdout, err, status>>

\* std::this_thread::sleep_for(MAIN_WAIT);
RaceSleep ==
  /\ Alive /\ pc["main"] = "r_sleep"
  /\ Goto("main", "r_nl")
  /\ UNCHANGED <<files, texts, idx, raceMon, printMon, stdout, err, status>>

RaceNewline ==
  /\ Alive /\ pc["main"] = "r_nl"
  /\ Write("main", "nl", "\n")
  /\ Goto("main", "r_unlock")
  /\ UNCHANGED <<files, texts, idx, raceMon, printMon, err, status>>

\* Variant of RaceUnlock: the flag is cleared for a next use before returning.
RaceUnlockReset ==
  /\ Alive /\ pc["main"] = "r_unlock"
  /\ raceMutex' = "none"
  /\ raceTestsFinished' = FALSE
  /\ Goto("main", "m_banner")
  /\ UNCHANGED <<files, texts, idx, raceTestVar, printMon, stdout, err, status>>

\* Variant of RaceUnlock: raceTest returns with raceMutex still locked.
RaceReturnLocked ==
  /\ Alive /\ pc["main"] = "r_unlock"
  /\ Goto("main", "m_banner")
  /\ UNCHANGED <<files, texts, idx, raceMon, printMon, stdout, err, status>>

\* lock.unlock(); and the return to main
RaceUnlock ==
  /\ Alive /\ pc["main"] = "r_unlock"
  /\ raceMutex' = "none"
  /\ Goto("main", "m_banner")
  /\ UNCHANGED <<files, texts, idx, raceTestsFinished, raceTestVar, printMon, stdout, err, status>>

----------------------------------------------------------------------------
(* monitorTest *)

MonBanner ==
  /\ Alive /\ pc["main"] = "m_banner"
  /\ Write("main", "banner", "monitor")
  /\ Goto("main", "m_spawnA")
  /\ UNCHANGED <<files, texts, idx, raceMon, printMon, err, status>>

MonSpawnA == Spawn("m_spawnA", "monA", "banner", "m_spawnB")
MonSpawnB == Spawn("m_spawnB", "monB", "lock", "m_sleep")

MonABanner == Banner("monA", "rock", rock_text, "nl")
MonAPut == DisplayPut("monA", rock_text)
MonASleep == DisplaySleep("monA", rock_text, "nl")

\* std::putchar('\n');
MonANewline ==
  /\ Alive /\ pc["monA"] = "nl"
  /\ Write("monA", "nl", "\n")
  /\ Goto("monA", "set")
  /\ UNCHANGED <<files, texts, idx, raceMon, printMon, err, status>>

\* finishedFirstText = true;
MonASet ==
  /\ Alive /\ pc["monA"] = "set"
  /\ finishedFirstText' = TRUE
  /\ Goto("monA", "notify")
  /\ UNCHANGED <<files, texts, idx, raceMon, printMutex, printCondition, stdout, err, status>>

\* printCondition.notify_all();
MonANotify ==
  /\ Alive /\ pc["monA"] = "notify"
  /\ printCondition' = {}
  /\ pc' = [t \in Threads |->
              IF t = "monA" THEN "done"
              ELSE IF t \in printCondition THEN "reacq" ELSE pc[t]]
  /\ UNCHANGED <<files, texts, idx, raceMon, finishedFirstText, printMutex, stdout, err, status>>

\* std::unique_lock<std::mutex> lock(printMutex);
MonBLock ==
  /\ Alive /\ pc["monB"] = "lock"
  /\ printMutex = "none"
  /\ printMutex' = "monB"
  /\ Goto("monB", "while")
  /\ UNCHANGED <<files, texts, idx, raceMon, finishedFirstText, printCondition, stdout, err, status>>

\* Variant of MonBWhile: the second worker prints without testing the flag.
MonBNoWait ==
  /\ Alive /\ pc["monB"] = "while"
  /\ Goto("monB", "banner")
  /\ UNCHANGED <<files, texts, idx, raceMon, printMon, stdout, err, status>>

\* while (!finishedFirstText)
MonBWhile ==
  /\ Alive /\ pc["monB"] = "while"
  /\ Goto("monB", IF finishedFirstText THEN "banner" ELSE "pred")
  /\ UNCHANGED <<files, texts, idx, raceMon, printMon, stdout, err, status>>

MonBPred ==
  /\ Alive /\ pc["monB"] = "pred"
  /\ Goto("monB", IF finishedFirstText THEN "while" ELSE "wait")
  /\ UNCHANGED <<files, texts, idx, raceMon, printMon, stdout, err, status>>

MonBWait ==
  /\ Alive /\ pc["monB"] = "wait"
  /\ printMutex' = "none"
  /\ printCondition' = printCondition \cup {"monB"}
  /\ Goto("monB", "blocked")
  /\ UNCHANGED <<files, texts, idx, raceMon, finishedFirstText, stdout, err, status>>

\* The position wait(lock, pred) resumes at once it holds the mutex again.
MonBResume == "pred"

MonBReacquire ==
  /\ Alive /\ pc["monB"] = "reacq"
  /\ printMutex = "none"
  /\ printMutex' = "monB"
  /\ Goto("monB", MonBResume)
  /\ UNCHANGED <<files, texts, idx, raceMon, finishedFirstText, printCondition, stdout, err, status>>

MonBBanner == Banner("monB", "hamlet", hamlet_text, "unlock")
MonBPut == DisplayPut("monB", hamlet_text)
MonBSleep == DisplaySleep("monB", hamlet_text, "unlock")

\* lock.unlock();
MonBUnlock ==
  /\ Alive /\ pc["monB"] = "unlock"
  /\ printMutex' = "none"
  /\ Goto("monB", "done")
  /\ UNCHANGED <<files, texts, idx, raceMon, finishedFirstText, printCondition, stdout, err, status>>

\* std::this_thread::sleep_for(MAIN_WAIT + (rock_text.size() + hamlet_text.size()) * TEXT_DELAY)
MonSleep ==
  /\ Alive /\ pc["main"] = "m_sleep"
  /\ Goto("main", "m_nl")
  /\ UNCHANGED <<files, texts, idx, raceMon, printMon, stdout, err, status>>

MonNewline ==
  /\ Alive /\ pc["main"] = "m_nl"
  /\ Write("main", "nl", "\n")
  /\ Goto("main", "exit")
  /\ UNCHANGED <<files, texts, idx, raceMon, printMon, err, status>>

----------------------------------------------------------------------------
(* condition variables: a blocked wait may return without a notify *)

RaceSpuriousWakeup ==
  /\ Alive /\ pc["main"] = "r_blocked"
  /\ raceTestVar' = raceTestVar \ {"main"}
  /\ Goto("main", "r_reacq")
  /\ UNCHANGED <<files, texts, idx, raceTestsFinished, raceMutex, printMon, stdout, err, status>>

MonSpuriousWakeup ==
  /\ Alive /\ pc["monB"] = "blocked"
  /\ printCondition' = printCondition \ {"monB"}
  /\ Goto("monB", "reacq")
  /\ UNCHANGED <<files, texts, idx, raceMon, finishedFirstText, printMutex, stdout, err, status>>

----------------------------------------------------------------------------

MainStep ==
  \/ LoadRock \/ LoadHamlet \/ singleThreadTest
  \/ RaceBanner \/ RaceSpawnA \/ RaceSpawnB \/ RaceLock \/ RaceWhile
  \/ RacePred \/ RaceWait \/ RaceReacquire \/ RaceSleep \/ RaceNewline
  \/ RaceUnlock
  \/ MonBanner \/ MonSpawnA \/ MonSpawnB \/ MonSleep \/ MonNewline
  \/ Exit0

RaceAStep == RaceABanner \/ RaceAPut \/ RaceASleep

RaceBStep == RaceBBanner \/ RaceBPut \/ RaceBSleep \/ RaceBSet \/ RaceBNotify

MonAStep ==
  \/ MonABanner \/ MonAPut \/ MonASleep \/ MonANewline \/ MonASet
  \/ MonANotify

MonBStep ==
  \/ MonBLock \/ MonBWhile \/ MonBPred \/ MonBWait \/ MonBReacquire
  \/ MonBBanner \/ MonBPut \/ MonBSleep \/ MonBUnlock

Next ==
  \/ MainStep \/ RaceAStep \/ RaceBStep \/ MonAStep \/ MonBStep
  \/ RaceSpuriousWakeup \/ MonSpuriousWakeup

Spec == Init /\ [][Next]_vars


\* Every thread that is not blocked eventually takes its next step; a
\* blocked wait is ended by a notify, and nothing obliges a spurious wake-up.
SpecFair ==
  /\ Spec
  /\ WF_vars(MainStep)
  /\ WF_vars(RaceAStep)
  /\ WF_vars(RaceBStep)
  /\ WF_vars(MonAStep)
  /\ WF_vars(MonBStep)

\* Every step of main but the end of monitorTest's sleep.
MainUntilMonSleep == MainStep /\ pc["main"] # "m_sleep"

\* As SpecFair, for as long as monitorTest's sleep lasts: every worker that
\* is not blocked takes its next step, and nothing ends the sleep.
SpecFairSleeping ==
  /\ Spec
  /\ WF_vars(MainUntilMonSleep)
  /\ WF_vars(RaceAStep)
  /\ WF_vars(RaceBStep)
  /\ WF_vars(MonAStep)
  /\ WF_vars(MonBStep)

\* displayTextSlowly on its own: raceTest's two workers, just started, each
\* display a text drawn from all texts up to MaxTextLen, the empty one
\* included.
DisplayInit ==
  /\ fs = [n \in {"rock", "hamlet"} |-> [openable |-> TRUE, content |-> <<>>]]
  /\ rock_text \in SeqsUpTo(Chars, MaxTextLen)
  /\ hamlet_text \in SeqsUpTo(Chars, MaxTextLen)
  /\ pc = [t \in Threads |->
            IF t = "main" THEN "r_lock"
            ELSE IF t \in {"raceA", "raceB"} THEN "banner" ELSE "idle"]
  /\ idx = [t \in Workers |-> 0]
  /\ raceTestsFinished = FlagInit
  /\ raceMutex = "none"
  /\ raceTestVar = {}
  /\ finishedFirstText = FlagInit
  /\ printMutex = "none"
  /\ printCondition = {}
  /\ out = [t \in Threads |-> <<>>]
  /\ recent = <<>>
  /\ err = <<>>
  /\ status = "running"

DisplayNext == RaceAStep \/ RaceBStep

SpecDisplay == DisplayInit /\ [][DisplayNext]_vars

----------------------------------------------------------------------------
(* Properties *)

\* The characters thread t has displayed with displayTextSlowly, in order.
TextOf(t) ==
  LET s == SelectSeq(out[t], LAMBDA e : e.kind = "text")
  IN [i \in 1..Len(s) |-> s[i].ch]

\* Everything monitorTest's first worker writes.
MonAFull ==
  <<Ev("monA", "banner", "rock")>> \o TextEvents("monA", rock_text)
    \o <<Ev("monA", "nl", "\n")>>

\* Everything monitorTest's second worker writes.
MonBFull == <<Ev("monB", "banner", "hamlet")>> \o TextEvents("monB", hamlet_text)

RaceLoop == {"r_while", "r_pred", "r_wait", "r_blocked", "r_reacq"}
MonBLoop == {"while", "pred", "wait", "blocked", "reacq"}
MonBPastWait == {"banner", "put", "sleep", "unlock", "done"}
AfterRaceTest == {"m_banner", "m_spawnA", "m_spawnB", "m_sleep", "m_nl", "exit"}

\* C1: in monitorTest the second worker is past its wait loop only when
\* finishedFirstText is true, finishedFirstText is true only when the first
\* worker has written its banner, all of rock_text and its newline, and so
\* the second worker has written nothing before the first has written all.
C1_AOutputBeforeB ==
  /\ pc["monB"] \in MonBPastWait => finishedFirstText
  /\ finishedFirstText => out["monA"] = MonAFull
  /\ out["monB"] # <<>> => out["monA"] = MonAFull

\* The second worker has written its banner and all of hamlet_text.
C1_Witness == out["monB"] = MonBFull /\ pc["monB"] = "done"

\* C2: when the process ends with exit(0), the characters monitorTest's
\* workers have displayed are rock_text followed by hamlet_text, complete.
C2_CompleteOutput ==
  status = "exit0" => TextOf("monA") \o TextOf("monB") = rock_text \o hamlet_text

\* C3: once raceTest has returned, both of its workers have displayed all
\* of their text.
C3_RaceWorkersFinished ==
  pc["main"] \in AfterRaceTest =>
    TextOf("raceA") = rock_text /\ TextOf("raceB") = hamlet_text

\* C4: a thread about to read or write a completion flag owns the mutex
\* paired with that flag.
C4_FlagAccessUnderLock ==
  /\ pc["main"] \in {"r_while", "r_pred"} => raceMutex = "main"
  /\ pc["raceB"] = "set" => raceMutex = "raceB"
  /\ pc["monB"] \in {"while", "pred"} => printMutex = "monB"
  /\ pc["monA"] = "set" => printMutex = "monA"

\* C5: when both files can be opened, the process eventually ends with
\* exit(0).
C5_EventuallyExit0 ==
  (fs["rock"].openable /\ fs["hamlet"].openable) ~> (status = "exit0")

\* C6: a waiter leaves its wait loop only with its flag true: a wait that
\* has its mutex again tests the predicate, a false predicate leads back
\* into the wait, and no step takes the waiter out of the loop while the
\* flag is false.
C6_NoProceedWhileFalse ==
  [][/\ (pc["main"] \in RaceLoop /\ pc'["main"] \notin RaceLoop)
          => raceTestsFinished /\ raceTestsFinished'
     /\ (pc["main"] = "r_reacq" /\ pc'["main"] # "r_reacq") => pc'["main"] = "r_pred"
     /\ (pc["main"] = "r_pred" /\ ~raceTestsFinished /\ pc'["main"] # "r_pred")
          => pc'["main"] = "r_wait"
     /\ (pc["monB"] \in MonBLoop /\ pc'["monB"] \notin MonBLoop)
          => finishedFirstText /\ finishedFirstText'
     /\ (pc["monB"] = "reacq" /\ pc'["monB"] # "reacq") => pc'["monB"] = "pred"
     /\ (pc["monB"] = "pred" /\ ~finishedFirstText /\ pc'["monB"] # "pred")
          => pc'["monB"] = "wait"]_vars

\* raceTest's waiter has been woken with raceTestsFinished still false.
C6_Witness == pc["main"] = "r_reacq" /\ ~raceTestsFinished

\* monitorTest's waiter has been woken with finishedFirstText still false.
C6_WitnessMonitor == pc["monB"] = "reacq" /\ ~finishedFirstText

\* C7: each flag is false until its signaller's assignment and true from
\* then on: no step takes a flag from true to false.
C7_FlagsMonotonic ==
  /\ [](/\ raceTestsFinished <=> pc["raceB"] \in {"notify", "done"}
        /\ finishedFirstText <=> pc["monA"] \in {"notify", "done"})
  /\ [][/\ raceTestsFinished => raceTestsFinished'
        /\ finishedFirstText => finishedFirstText']_vars

\* Both flags have been set, and monitorTest is running or has returned.
C7_Witness == raceTestsFinished /\ finishedFirstText /\ pc["main"] \in AfterRaceTest

\* C8: raceTest puts no order on its workers' writes: while the process
\* runs, a worker that has started and not finished can always take its
\* next step, whatever the other worker has done.
C8_WorkersNeverBlocked ==
  /\ (Alive /\ pc["raceA"] \notin {"idle", "done"}) => ENABLED RaceAStep
  /\ (Alive /\ pc["raceB"] \notin {"idle", "done"}) => ENABLED RaceBStep

\* A character of hamlet_text reached stdout between two of rock_text.
C8_Witness ==
  /\ Len(recent) = 3
  /\ recent[1].who = "raceA" /\ recent[2].who = "raceB" /\ recent[3].who = "raceA"

\* A character of rock_text reached stdout between two of hamlet_text.
C8_WitnessOther ==
  /\ Len(recent) = 3
  /\ recent[1].who = "raceB" /\ recent[2].who = "raceA" /\ recent[3].who = "raceB"

\* C9: a file that cannot be opened ends the process with the error message
\* and status 1, with no text stored for it, nothing on stdout and no
\* worker started; status 0 is reached only with both files opened and all
\* three tests returned.
C9_LoadFailureIsFatal ==
  /\ (~fs["rock"].openable \/ ~fs["hamlet"].openable) =>
       /\ status # "exit0"
       /\ \A t \in Threads : out[t] = <<>>
       /\ \A w \in Workers : pc[w] = "idle"
       /\ pc["main"] \in {"load_rock", "load_hamlet"}
       /\ status = "running" => ENABLED MainStep
  /\ ~fs["rock"].openable => rock_text = <<>> /\ hamlet_text = <<>>
  /\ ~fs["hamlet"].openable => hamlet_text = <<>>
  /\ status = "exit1" =>
       /\ ~fs["rock"].openable \/ ~fs["hamlet"].openable
       /\ err = <<"Fatal Error: Could not open input file\n">>
  /\ status = "exit0" =>
       /\ fs["rock"].openable /\ fs["hamlet"].openable
       /\ pc["main"] = "exit"
       /\ err = <<>>

\* The second file could not be opened after the first was read.
C9_Witness ==
  status = "exit1" /\ fs["rock"].openable /\ ~fs["hamlet"].openable
    /\ pc["main"] = "load_hamlet"

\* The content with every line ended by exactly one newline.
Terminated(content) ==
  IF content[Len(content)] = "\n" THEN content ELSE content \o <<"\n">>

\* C10: the text readFile stores for a file that can be opened and is not
\* empty is the file's content, with a newline added only when the content
\* does not end with one.
C10_ReadFileContent ==
  /\ (pc["main"] # "load_rock" /\ fs["rock"].openable /\ fs["rock"].content # <<>>)
       => rock_text = Terminated(fs["rock"].content)
  /\ (pc["main"] \notin {"load_rock", "load_hamlet"} /\ fs["hamlet"].content # <<>>)
       => hamlet_text = Terminated(fs["hamlet"].content)


\* What worker t has on stdout once it has written its banner and the
\* first k characters of text.
Displayed(t, name, text, k) ==
  <<Ev(t, "banner", name)>> \o TextEvents(t, SubSeq(text, 1, k))

\* Worker t, displaying text and continuing at pc values in after: before
\* each write it has written the characters before idx[t] and slept once
\* for each (idx[t] - 1 sleeps), after a write it has written one more, and
\* when the call has returned it has written all of text, one write and
\* one sleep per character.
DisplaysExactly(t, name, text, after) ==
  /\ pc[t] = "put" =>
       idx[t] \in 1..Len(text) /\ out[t] = Displayed(t, name, text, idx[t] - 1)
  /\ pc[t] = "sleep" =>
       idx[t] \in 1..Len(text) /\ out[t] = Displayed(t, name, text, idx[t])
  /\ pc[t] \in after =>
       idx[t] = Len(text) + 1 /\ out[t] = Displayed(t, name, text, Len(text))

\* C11: displayTextSlowly writes the characters of its text, each once and
\* in order, with one sleep after each write; for the empty text it writes
\* nothing, does not sleep and returns.
C11_DisplayWritesText ==
  /\ [](/\ DisplaysExactly("raceA", "rock", rock_text, {"done"})
        /\ DisplaysExactly("raceB", "hamlet", hamlet_text, {"set", "notify", "done"}))
  /\ [][/\ \A t \in {"raceA", "raceB"} :
            /\ (pc[t] = "put" /\ pc'[t] # "put") =>
                 pc'[t] = "sleep" /\ Len(out'[t]) = Len(out[t]) + 1
            /\ (pc[t] = "sleep" /\ pc'[t] # "sleep") => out'[t] = out[t]
        /\ (pc["raceA"] = "banner" /\ rock_text = <<>> /\ pc'["raceA"] # "banner")
             => pc'["raceA"] = "done"
        /\ (pc["raceB"] = "banner" /\ hamlet_text = <<>> /\ pc'["raceB"] # "banner")
             => pc'["raceB"] = "set"]_vars

\* The call returned for the empty text with nothing written, and for a
\* text of two characters or more with all of it written.
C11_Witness ==
  /\ rock_text = <<>> /\ pc["raceA"] = "done"
  /\ out["raceA"] = <<Ev("raceA", "banner", "rock")>> /\ idx["raceA"] = 1
  /\ Len(hamlet_text) >= 2 /\ pc["raceB"] = "done"
  /\ TextOf("raceB") = hamlet_text


\* C12: when monitorTest's sleep has ended, both of its workers are done:
\* finishedFirstText is set, the second worker has written all of
\* hamlet_text and printMutex is free.
C12_WorkersDoneAfterSleep ==
  pc["main"] \in {"m_nl", "exit"} =>
    /\ finishedFirstText
    /\ pc["monA"] = "done"
    /\ out["monB"] = MonBFull
    /\ pc["monB"] = "done"
    /\ printMutex = "none"

\* C13: while the process runs, once monitorTest's first worker has set
\* finishedFirstText and called notify_all, the second worker eventually
\* gets past its wait loop.
C13_EventuallyPastWait ==
  (pc["monA"] = "done") ~> (pc["monB"] \in MonBPastWait \/ ~Alive)

\* C13, in the form a finite run decides: while the process runs, the
\* second worker is never blocked on printCondition with finishedFirstText
\* true once the first worker's only notify_all has been issued (from
\* there only a spurious wake-up could let it go on).
C13_NoLostWakeup ==
  ~(Alive /\ "monB" \in printCondition /\ finishedFirstText /\ pc["monA"] = "done")

\* Thread t is in a sleep_for call.
Sleeping(t) ==
  IF t = "main" THEN pc[t] \in {"r_sleep", "m_sleep"} ELSE pc[t] = "sleep"

Owns(t) == {m \in {"raceMutex", "printMutex"} :
              (m = "raceMutex" /\ raceMutex = t) \/ (m = "printMutex" /\ printMutex = t)}

\* C14, as claimed: a sleeping thread owns neither raceMutex nor printMutex.
C14_NoLockWhileSleeping == \A t \in Threads : Sleeping(t) => Owns(t) = {}

\* C14, amended: a sleeping thread owns a mutex in two places only: main
\* owns raceMutex during raceTest's grace-period sleep, and monitorTest's
\* second worker owns printMutex during the sleeps of its
\* displayTextSlowly; every other sleeping thread owns no mutex.
C14_SleepLocks ==
  \A t \in Threads :
    Sleeping(t) =>
      Owns(t) = IF t = "main" /\ pc[t] = "r_sleep" THEN {"raceMutex"}
                ELSE IF t = "monB" THEN {"printMutex"}
                ELSE {}

\* monitorTest's second worker sleeps between two characters with
\* printMutex locked, while main sleeps in monitorTest with no mutex.
C14_Witness ==
  /\ pc["monB"] = "sleep" /\ printMutex = "monB"
  /\ pc["main"] = "m_sleep" /\ Owns("main") = {}

\* C15: when main is past raceTest's wait loop, raceTestsFinished is true
\* and raceTest's second worker has written its banner and all of
\* hamlet_text.
C15_ReturnAfterB ==
  pc["main"] \in {"r_sleep", "r_nl", "r_unlock"} \cup AfterRaceTest =>
    /\ raceTestsFinished
    /\ out["raceB"] = Displayed("raceB", "hamlet", hamlet_text, Len(hamlet_text))

\* main sleeps the grace period while the second worker, having set the
\* flag, has not yet called notify_all.
C15_Witness ==
  pc["main"] = "r_sleep" /\ pc["raceB"] = "notify" /\ raceTestsFinished

====
